---- MODULE Spec2Model ----
(***************************************************************************)
(* The operator-forwarding macros of forward_ref_generic as a rewriting    *)
(* system.  An invocation is the token structure the macros' grammar       *)
(* accepts:                                                                *)
(*     ( [ Generics ] )?  impl Trait (, Method)? for LHS (, RHS)?          *)
(*     ( where Bounds )?                                                   *)
(* A fragment captured under `$( ... )?` is a sequence of length 0 or 1,   *)
(* as macro_rules captures it.  Each macro tries its rules in textual      *)
(* order and transcribes the first one that matches; a transcription is    *)
(* either a list of further macro calls or a list of impl items.           *)
(***************************************************************************)
EXTENDS Integers, Sequences, FiniteSets, TLC

VARIABLES phase, inv, pending, emitted, trace, crate, applied, result

vars == <<phase, inv, pending, emitted, trace, crate, applied, result>>

\* Bounds of the model.
MaxRefDepth == 1
MaxInvocations == 2
RecursionLimit == 8

----------------------------------------------------------------------------
\* Types: a base type name behind a stack of `&`.

Ref(t) == <<"&">> \o t

IsRef(t) == Len(t) > 1 /\ Head(t) = "&"

Deref(t) == Tail(t)

RECURSIVE RefTypes(_, _)
RefTypes(names, d) ==
    IF d = 0 THEN {<<n>> : n \in names}
    ELSE RefTypes(names, d - 1) \cup {Ref(t) : t \in RefTypes(names, d - 1)}

NoCall == [ty |-> <<>>, meth |-> "", args |-> <<>>]

----------------------------------------------------------------------------
\* forward_ref_unop

\* Mutant: rule 1 forgets the literal `Neg` and takes any trait name.
forward_ref_unop_matches_any_trait(i, f) ==
    CASE i = 1 -> f.meth = <<>> /\ f.rhs = <<>>
      [] i = 2 -> f.meth # <<>> /\ f.rhs = <<>>
      [] OTHER -> FALSE

forward_ref_unop_matches(i, f) ==
    CASE i = 1 -> f.impl = "Neg" /\ f.meth = <<>> /\ f.rhs = <<>>
      [] i = 2 -> f.meth # <<>> /\ f.rhs = <<>>
      [] OTHER -> FALSE

\* Mutant: the body calls the operator on the reference itself.
forward_ref_unop_emit_on_ref(f) ==
    << [generic |-> f.generic, trait |-> f.impl, arg |-> <<>>,
        self |-> Ref(f.lhs), bound |-> f.bound,
        output |-> << [of |-> f.lhs, as |-> f.impl, arg |-> <<>>] >>,
        meth |-> f.meth[1], receiver |-> "self", rhs |-> <<>>,
        call |-> [ty |-> Ref(f.lhs), meth |-> f.meth[1], args |-> <<"self">>]] >>

\* Mutant: the body passes `self` on without dereferencing it.
forward_ref_unop_emit_no_deref(f) ==
    << [generic |-> f.generic, trait |-> f.impl, arg |-> <<>>,
        self |-> Ref(f.lhs), bound |-> f.bound,
        output |-> << [of |-> f.lhs, as |-> f.impl, arg |-> <<>>] >>,
        meth |-> f.meth[1], receiver |-> "self", rhs |-> <<>>,
        call |-> [ty |-> f.lhs, meth |-> f.meth[1], args |-> <<"self">>]] >>

forward_ref_unop_emit(f) ==
    << [generic |-> f.generic, trait |-> f.impl, arg |-> <<>>,
        self |-> Ref(f.lhs), bound |-> f.bound,
        output |-> << [of |-> f.lhs, as |-> f.impl, arg |-> <<>>] >>,
        meth |-> f.meth[1], receiver |-> "self", rhs |-> <<>>,
        call |-> [ty |-> f.lhs, meth |-> f.meth[1], args |-> <<"*self">>]] >>

forward_ref_unop(i, f) ==
    CASE i = 1 -> [calls |-> << [macro |-> "forward_ref_unop",
                                 form |-> [f EXCEPT !.meth = <<"neg">>]] >>,
                   items |-> <<>>]
      [] i = 2 -> [calls |-> <<>>, items |-> forward_ref_unop_emit(f)]

----------------------------------------------------------------------------
\* forward_ref_binop

\* Mutant: the shorthand rules take the trait name with or without a method.
forward_ref_binop_matches_loose(i, f) ==
    CASE i = 1 -> f.impl = "Add"
      [] i = 2 -> f.impl = "Sub"
      [] i = 3 -> f.impl = "Mul"
      [] i = 4 -> f.impl = "Div"
      [] i = 5 -> f.meth # <<>> /\ f.rhs = <<>>
      [] i = 6 -> f.meth # <<>> /\ f.rhs # <<>>
      [] OTHER -> FALSE

forward_ref_binop_matches(i, f) ==
    CASE i = 1 -> f.impl = "Add" /\ f.meth = <<>>
      [] i = 2 -> f.impl = "Sub" /\ f.meth = <<>>
      [] i = 3 -> f.impl = "Mul" /\ f.meth = <<>>
      [] i = 4 -> f.impl = "Div" /\ f.meth = <<>>
      [] i = 5 -> f.meth # <<>> /\ f.rhs = <<>>
      [] i = 6 -> f.meth # <<>> /\ f.rhs # <<>>
      [] OTHER -> FALSE

\* Mutant: the where clause is not carried onto the block.
BinopImpl_no_where(f, selfTy, rhsTy, a1, a2) ==
    [generic |-> f.generic, trait |-> f.impl, arg |-> <<rhsTy>>,
     self |-> selfTy, bound |-> <<>>,
     output |-> << [of |-> f.lhs, as |-> f.impl, arg |-> <<f.rhs[1]>>] >>,
     meth |-> f.meth[1], receiver |-> "self", rhs |-> <<rhsTy>>,
     call |-> [ty |-> f.lhs, meth |-> f.meth[1], args |-> <<a1, a2>>]]

\* One `impl $impl<rhsTy> for selfTy` block of the emission rule; a1 and a2
\* are the argument expressions of the delegating call.
BinopImpl(f, selfTy, rhsTy, a1, a2) ==
    [generic |-> f.generic, trait |-> f.impl, arg |-> <<rhsTy>>,
     self |-> selfTy, bound |-> f.bound,
     output |-> << [of |-> f.lhs, as |-> f.impl, arg |-> <<f.rhs[1]>>] >>,
     meth |-> f.meth[1], receiver |-> "self", rhs |-> <<rhsTy>>,
     call |-> [ty |-> f.lhs, meth |-> f.meth[1], args |-> <<a1, a2>>]]

\* Mutant: the third block repeats the header of the first.
forward_ref_binop_emit_repeated(f) ==
    << BinopImpl(f, Ref(f.lhs), f.rhs[1], "*self", "rhs"),
       BinopImpl(f, f.lhs, Ref(f.rhs[1]), "self", "*rhs"),
       BinopImpl(f, Ref(f.lhs), f.rhs[1], "*self", "*rhs") >>

\* Mutant: the (&L, &R) implementation is left out.
forward_ref_binop_emit_two(f) ==
    << BinopImpl(f, Ref(f.lhs), f.rhs[1], "*self", "rhs"),
       BinopImpl(f, f.lhs, Ref(f.rhs[1]), "self", "*rhs") >>

forward_ref_binop_emit(f) ==
    << BinopImpl(f, Ref(f.lhs), f.rhs[1], "*self", "rhs"),
       BinopImpl(f, f.lhs, Ref(f.rhs[1]), "self", "*rhs"),
       BinopImpl(f, Ref(f.lhs), Ref(f.rhs[1]), "*self", "*rhs") >>

\* Mutant: the Sub rule was copied from the Add rule with its method kept.
BinopMethod_copied(i) ==
    CASE i = 1 -> "add" [] i = 2 -> "add" [] i = 3 -> "mul" [] i = 4 -> "div"

BinopMethod(i) ==
    CASE i = 1 -> "add" [] i = 2 -> "sub" [] i = 3 -> "mul" [] i = 4 -> "div"

\* Mutant: the RHS-defaulting rule re-invokes the macro without the RHS.
forward_ref_binop_default_lost(i, f) ==
    CASE i \in 1..4 -> [calls |-> << [macro |-> "forward_ref_binop",
                                      form |-> [f EXCEPT !.meth = <<BinopMethod(i)>>]] >>,
                        items |-> <<>>]
      [] i = 5 -> [calls |-> << [macro |-> "forward_ref_binop", form |-> f] >>,
                   items |-> <<>>]
      [] i = 6 -> [calls |-> <<>>, items |-> forward_ref_binop_emit(f)]

\* Mutant: the RHS-defaulting rule writes `&$lhs` for the missing RHS.
forward_ref_binop_default_ref(i, f) ==
    CASE i \in 1..4 -> [calls |-> << [macro |-> "forward_ref_binop",
                                      form |-> [f EXCEPT !.meth = <<BinopMethod(i)>>]] >>,
                        items |-> <<>>]
      [] i = 5 -> [calls |-> << [macro |-> "forward_ref_binop",
                                 form |-> [f EXCEPT !.rhs = <<Ref(f.lhs)>>]] >>,
                   items |-> <<>>]
      [] i = 6 -> [calls |-> <<>>, items |-> forward_ref_binop_emit(f)]

forward_ref_binop(i, f) ==
    CASE i \in 1..4 -> [calls |-> << [macro |-> "forward_ref_binop",
                                      form |-> [f EXCEPT !.meth = <<BinopMethod(i)>>]] >>,
                        items |-> <<>>]
      [] i = 5 -> [calls |-> << [macro |-> "forward_ref_binop",
                                 form |-> [f EXCEPT !.rhs = <<f.lhs>>]] >>,
                   items |-> <<>>]
      [] i = 6 -> [calls |-> <<>>, items |-> forward_ref_binop_emit(f)]

----------------------------------------------------------------------------
\* commutative_binop

\* Mutant: the second shorthand rule names Sub instead of Mul.
commutative_binop_matches_sub(i, f) ==
    CASE i = 1 -> f.impl = "Add" /\ f.meth = <<>> /\ f.rhs # <<>>
      [] i = 2 -> f.impl = "Sub" /\ f.meth = <<>> /\ f.rhs # <<>>
      [] i = 3 -> f.meth # <<>> /\ f.rhs # <<>>
      [] OTHER -> FALSE

commutative_binop_matches(i, f) ==
    CASE i = 1 -> f.impl = "Add" /\ f.meth = <<>> /\ f.rhs # <<>>
      [] i = 2 -> f.impl = "Mul" /\ f.meth = <<>> /\ f.rhs # <<>>
      [] i = 3 -> f.meth # <<>> /\ f.rhs # <<>>
      [] OTHER -> FALSE

\* Mutant: the body delegates without swapping its operands.
commutative_binop_emit_unswapped(f) ==
    << [generic |-> f.generic, trait |-> f.impl, arg |-> <<f.lhs>>,
        self |-> f.rhs[1], bound |-> f.bound,
        output |-> << [of |-> f.lhs, as |-> f.impl, arg |-> <<f.rhs[1]>>] >>,
        meth |-> f.meth[1], receiver |-> "self", rhs |-> <<f.lhs>>,
        call |-> [ty |-> f.lhs, meth |-> f.meth[1], args |-> <<"self", "rhs">>]] >>

\* Mutant: the implementation is emitted for a reference to the left type.
commutative_binop_emit_for_ref(f) ==
    << [generic |-> f.generic, trait |-> f.impl, arg |-> <<Ref(f.lhs)>>,
        self |-> f.rhs[1], bound |-> f.bound,
        output |-> << [of |-> f.lhs, as |-> f.impl, arg |-> <<f.rhs[1]>>] >>,
        meth |-> f.meth[1], receiver |-> "self", rhs |-> <<Ref(f.lhs)>>,
        call |-> [ty |-> f.lhs, meth |-> f.meth[1], args |-> <<"*rhs", "self">>]] >>

commutative_binop_emit(f) ==
    << [generic |-> f.generic, trait |-> f.impl, arg |-> <<f.lhs>>,
        self |-> f.rhs[1], bound |-> f.bound,
        output |-> << [of |-> f.lhs, as |-> f.impl, arg |-> <<f.rhs[1]>>] >>,
        meth |-> f.meth[1], receiver |-> "self", rhs |-> <<f.lhs>>,
        call |-> [ty |-> f.lhs, meth |-> f.meth[1], args |-> <<"rhs", "self">>]] >>

CommutativeMethod(i) ==
    CASE i = 1 -> "add" [] i = 2 -> "mul"

commutative_binop(i, f) ==
    CASE i \in 1..2 -> [calls |-> << [macro |-> "commutative_binop",
                                      form |-> [f EXCEPT !.meth = <<CommutativeMethod(i)>>]] >>,
                        items |-> <<>>]
      [] i = 3 -> [calls |-> <<>>, items |-> commutative_binop_emit(f)]

----------------------------------------------------------------------------
\* forward_ref_commutative_binop

forward_ref_commutative_binop_matches(i, f) ==
    CASE i = 1 -> f.impl = "Add" /\ f.meth = <<>> /\ f.rhs # <<>>
      [] i = 2 -> f.impl = "Mul" /\ f.meth = <<>> /\ f.rhs # <<>>
      [] i = 3 -> f.meth # <<>> /\ f.rhs # <<>>
      [] OTHER -> FALSE

\* Mutant: only the (L, R) order is forwarded.
forward_ref_commutative_binop_emit_once(f) ==
    << [macro |-> "forward_ref_binop", form |-> f] >>

\* Mutant: the second call repeats the operand order of the first.
forward_ref_commutative_binop_emit_same_order(f) ==
    << [macro |-> "forward_ref_binop", form |-> f],
       [macro |-> "forward_ref_binop", form |-> f] >>

forward_ref_commutative_binop_emit(f) ==
    << [macro |-> "forward_ref_binop", form |-> f],
       [macro |-> "forward_ref_binop",
        form |-> [f EXCEPT !.lhs = f.rhs[1], !.rhs = <<f.lhs>>]] >>

ForwardRefCommutativeMethod(i) ==
    CASE i = 1 -> "add" [] i = 2 -> "mul"

forward_ref_commutative_binop(i, f) ==
    CASE i \in 1..2 -> [calls |-> << [macro |-> "forward_ref_commutative_binop",
                                      form |-> [f EXCEPT !.meth = <<ForwardRefCommutativeMethod(i)>>]] >>,
                        items |-> <<>>]
      [] i = 3 -> [calls |-> forward_ref_commutative_binop_emit(f), items |-> <<>>]

----------------------------------------------------------------------------
\* forward_ref_op_assign

forward_ref_op_assign_matches(i, f) ==
    CASE i = 1 -> f.impl = "AddAssign" /\ f.meth = <<>>
      [] i = 2 -> f.impl = "SubAssign" /\ f.meth = <<>>
      [] i = 3 -> f.impl = "MulAssign" /\ f.meth = <<>>
      [] i = 4 -> f.impl = "DivAssign" /\ f.meth = <<>>
      [] i = 5 -> f.meth # <<>> /\ f.rhs = <<>>
      [] i = 6 -> f.meth # <<>> /\ f.rhs # <<>>
      [] OTHER -> FALSE

\* Mutant: a left-reference implementation, as the binary family emits.
forward_ref_op_assign_emit_left_ref(f) ==
    << [generic |-> f.generic, trait |-> f.impl, arg |-> <<Ref(f.rhs[1])>>,
        self |-> Ref(f.lhs), bound |-> f.bound,
        output |-> <<>>,
        meth |-> f.meth[1], receiver |-> "&mut self", rhs |-> <<Ref(f.rhs[1])>>,
        call |-> [ty |-> f.lhs, meth |-> f.meth[1], args |-> <<"*self", "*rhs">>]] >>

forward_ref_op_assign_emit(f) ==
    << [generic |-> f.generic, trait |-> f.impl, arg |-> <<Ref(f.rhs[1])>>,
        self |-> f.lhs, bound |-> f.bound,
        output |-> <<>>,
        meth |-> f.meth[1], receiver |-> "&mut self", rhs |-> <<Ref(f.rhs[1])>>,
        call |-> [ty |-> f.lhs, meth |-> f.meth[1], args |-> <<"self", "*rhs">>]] >>

OpAssignMethod(i) ==
    CASE i = 1 -> "add_assign" [] i = 2 -> "sub_assign"
      [] i = 3 -> "mul_assign" [] i = 4 -> "div_assign"

forward_ref_op_assign(i, f) ==
    CASE i \in 1..4 -> [calls |-> << [macro |-> "forward_ref_op_assign",
                                      form |-> [f EXCEPT !.meth = <<OpAssignMethod(i)>>]] >>,
                        items |-> <<>>]
      [] i = 5 -> [calls |-> << [macro |-> "forward_ref_op_assign",
                                 form |-> [f EXCEPT !.rhs = <<f.lhs>>]] >>,
                   items |-> <<>>]
      [] i = 6 -> [calls |-> <<>>, items |-> forward_ref_op_assign_emit(f)]

----------------------------------------------------------------------------
\* Rule dispatch: macro_rules tries a macro's rules in textual order and
\* transcribes the first that matches; when none does, expansion fails.

Macros == {"forward_ref_unop", "forward_ref_binop", "commutative_binop",
           "forward_ref_commutative_binop", "forward_ref_op_assign"}

NRules(m) ==
    CASE m = "forward_ref_unop" -> 2
      [] m = "forward_ref_binop" -> 6
      [] m = "commutative_binop" -> 3
      [] m = "forward_ref_commutative_binop" -> 3
      [] m = "forward_ref_op_assign" -> 6

Matches(m, i, f) ==
    CASE m = "forward_ref_unop" -> forward_ref_unop_matches(i, f)
      [] m = "forward_ref_binop" -> forward_ref_binop_matches(i, f)
      [] m = "commutative_binop" -> commutative_binop_matches(i, f)
      [] m = "forward_ref_commutative_binop" -> forward_ref_commutative_binop_matches(i, f)
      [] m = "forward_ref_op_assign" -> forward_ref_op_assign_matches(i, f)

Matching(m, f) == {i \in 1..NRules(m) : Matches(m, i, f)}

\* 0 when no rule matches.
FirstMatch(m, f) ==
    IF Matching(m, f) = {} THEN 0
    ELSE CHOOSE i \in Matching(m, f) : \A j \in Matching(m, f) : i <= j

Transcribe(m, i, f) ==
    CASE m = "forward_ref_unop" -> forward_ref_unop(i, f)
      [] m = "forward_ref_binop" -> forward_ref_binop(i, f)
      [] m = "commutative_binop" -> commutative_binop(i, f)
      [] m = "forward_ref_commutative_binop" -> forward_ref_commutative_binop(i, f)
      [] m = "forward_ref_op_assign" -> forward_ref_op_assign(i, f)

\* The whole expansion of a list of macro calls: the pending calls are
\* expanded depth-first, in place, until only items are left.  `ok` is FALSE
\* when some call matches no rule (or the recursion limit is hit).
RECURSIVE ExpandAll(_, _, _)
ExpandAll(calls, items, fuel) ==
    IF calls = <<>> THEN [ok |-> TRUE, items |-> items]
    ELSE IF fuel = 0 THEN [ok |-> FALSE, items |-> <<>>]
    ELSE LET m == Head(calls).macro
             f == Head(calls).form
             i == FirstMatch(m, f)
         IN  IF i = 0 THEN [ok |-> FALSE, items |-> <<>>]
             ELSE ExpandAll(Transcribe(m, i, f).calls \o Tail(calls),
                            items \o Transcribe(m, i, f).items, fuel - 1)

Emission(m, f) == ExpandAll(<< [macro |-> m, form |-> f] >>, <<>>, RecursionLimit)

----------------------------------------------------------------------------
\* The crate the macros are invoked in: its impl items, the caller's own
\* by-value implementations first and the emitted ones after them in source
\* order, as the compiler sees them once every invocation is expanded.

\* A by-value implementation written by the caller (no delegating call).
BaseImpl(tr, m, selfTy, argOpt, recv) ==
    [generic |-> <<>>, trait |-> tr, arg |-> argOpt, self |-> selfTy,
     bound |-> <<>>, output |-> <<>>, meth |-> m, receiver |-> recv,
     rhs |-> argOpt, call |-> NoCall]

IsBase(it) == it.call = NoCall

\* Coherence identifies an implementation by trait, trait argument and
\* Self type.
Key(it) == <<it.trait, it.arg, it.self>>

Coherent(c) ==
    \A i, j \in 1..Len(c) : i # j => Key(c[i]) # Key(c[j])

\* Type of the method's first parameter: `self` or `&mut self`.
SelfParamTy(it) ==
    IF it.receiver = "self" THEN it.self ELSE <<"&mut">> \o it.self

\* Static type of an argument expression of the delegating call; <<>> when
\* the expression does not type-check (a dereference of a non-reference).
ExprTy(it, e) ==
    CASE e = "self" -> SelfParamTy(it)
      [] e = "*self" -> IF IsRef(it.self) /\ it.receiver = "self"
                        THEN Deref(it.self) ELSE <<>>
      [] e = "rhs" -> IF it.rhs = <<>> THEN <<>> ELSE it.rhs[1]
      [] e = "*rhs" -> IF it.rhs # <<>> /\ IsRef(it.rhs[1])
                       THEN Deref(it.rhs[1]) ELSE <<>>

\* `<ty>::meth(args)`: the implementations for `ty` that define `meth` with
\* these parameter types.
Resolve(c, ty, m, argTys) ==
    {j \in 1..Len(c) :
        /\ c[j].self = ty
        /\ c[j].meth = m
        /\ Len(argTys) = 1 + Len(c[j].rhs)
        /\ argTys[1] = SelfParamTy(c[j])
        /\ (c[j].rhs # <<>> => argTys[2] = c[j].rhs[1])}

\* `<of as Trait<arg>>::Output` normalizes to a type: it names an
\* implementation whose own Output is written by the caller or is a
\* projection that normalizes in turn; a projection that leads back to
\* itself never does.
RECURSIVE OutputDefined(_, _, _)
OutputDefined(c, o, fuel) ==
    /\ fuel > 0
    /\ \E j \in 1..Len(c) :
          /\ c[j].trait = o.as /\ c[j].self = o.of /\ c[j].arg = o.arg
          /\ \/ IsBase(c[j])
             \/ \A n \in 1..Len(c[j].output) : OutputDefined(c, c[j].output[n], fuel - 1)

ProjectionResolves(c, o) == OutputDefined(c, o, Len(c))

ItemTypeChecks(c, it) ==
    \/ IsBase(it)
    \/ /\ \A o \in {it.output[n] : n \in 1..Len(it.output)} : ProjectionResolves(c, o)
       /\ \A n \in 1..Len(it.call.args) : ExprTy(it, it.call.args[n]) # <<>>
       /\ Cardinality(Resolve(c, it.call.ty, it.call.meth,
                              [n \in 1..Len(it.call.args) |-> ExprTy(it, it.call.args[n])])) = 1

TypeChecks(c) == Coherent(c) /\ \A k \in 1..Len(c) : ItemTypeChecks(c, c[k])

----------------------------------------------------------------------------
\* Running the built crate.  A value carries its type; dereferencing a
\* reference to a Copy value yields the value.  The caller's by-value
\* implementation is left uninterpreted: its outcome is the application of
\* that implementation to the operand values.

\* The operands wrap an i32 and the by-value implementations compute on it:
\* arithmetic that leaves the i32 range panics (overflow checks on).
I32Max == 2147483647

I32Min == -I32Max - 1

Values == {3, 5, I32Max, I32Min}

AddOverflows(l, r) ==
    \/ r > 0 /\ l > I32Max - r
    \/ r < 0 /\ l < I32Min - r

\* The by-value implementation of trait tr panics on these operand values.
BasePanics(tr, vals) ==
    CASE tr = "Neg" -> vals[1] = I32Min
      [] OTHER -> AddOverflows(vals[1], vals[2])

DerefVal(x) == [ty |-> Deref(x.ty), v |-> x.v]

ArgVal(e, a, b) ==
    CASE e = "self" -> a
      [] e = "*self" -> DerefVal(a)
      [] e = "rhs" -> b
      [] e = "*rhs" -> DerefVal(b)

Stuck(why) ==
    [ok |-> FALSE, why |-> why, base |-> <<>>, args |-> <<>>, calls |-> 0,
     panic |-> FALSE]

RECURSIVE Call(_, _, _, _)
Call(c, k, args, fuel) ==
    IF fuel = 0 THEN Stuck("recursion")
    ELSE IF IsBase(c[k])
    THEN [ok |-> TRUE, why |-> "", base |-> Key(c[k]),
          args |-> [n \in 1..Len(args) |-> args[n].v], calls |-> 1,
          panic |-> BasePanics(c[k].trait, [n \in 1..Len(args) |-> args[n].v])]
    ELSE LET a == args[1]
             b == IF Len(args) > 1 THEN args[2] ELSE a
             next == [n \in 1..Len(c[k].call.args) |-> ArgVal(c[k].call.args[n], a, b)]
             to == Resolve(c, c[k].call.ty, c[k].call.meth,
                           [n \in 1..Len(next) |-> next[n].ty])
         IN  IF Cardinality(to) # 1 THEN Stuck("unresolved")
             ELSE Call(c, CHOOSE j \in to : TRUE, next, fuel - 1)

\* The operator expression `a op b` (or `op a`): dispatch on the trait, the
\* type of the left operand and the type of the right one.
Dispatch(c, tr, selfTy, argOpt) ==
    {j \in 1..Len(c) : c[j].trait = tr /\ c[j].self = selfTy /\ c[j].arg = argOpt}

EvalOp(c, tr, args) ==
    LET recv == args[1].ty
        selfTy == IF Head(recv) = "&mut" THEN Tail(recv) ELSE recv
        to == Dispatch(c, tr, selfTy, [n \in 1..(Len(args) - 1) |-> args[n + 1].ty])
    IN  IF Cardinality(to) # 1 THEN Stuck("no impl")
        ELSE Call(c, CHOOSE j \in to : TRUE, args, Len(c) + 1)

----------------------------------------------------------------------------
\* Invocations.

NoInv == [macro |-> "", form |-> <<>>]

NoResult == [op |-> "", args |-> <<>>, out |-> Stuck("")]

Traits == {"Neg", "Not", "Add", "Sub", "Mul", "Div", "BitAnd",
           "AddAssign", "SubAssign", "MulAssign", "DivAssign"}

Methods == {"neg", "not", "add", "sub", "mul", "div", "bitand",
            "add_assign", "sub_assign", "mul_assign", "div_assign"}

TypeNames == {"Int1", "Int2"}

OperandTypes == RefTypes(TypeNames, MaxRefDepth)

Opt(S) == {<<>>} \cup {<<x>> : x \in S}

Generics == Opt({<<"T">>, <<"T", ",", "const M: usize">>})

Bounds == Opt({<<"T: Copy + Add<Output = T>">>})

Forms ==
    [generic : Generics, impl : Traits, meth : Opt(Methods),
     lhs : OperandTypes, rhs : Opt(OperandTypes), bound : Bounds]

\* The invocations of a crate that is built and run: the shorthand forms the
\* tests use, on the named types.
FamilyTrait(m) ==
    CASE m = "forward_ref_unop" -> "Neg"
      [] m = "forward_ref_op_assign" -> "AddAssign"
      [] OTHER -> "Add"

CrateForms(m) ==
    [generic : {<<>>}, impl : {FamilyTrait(m)}, meth : {<<>>},
     lhs : RefTypes(TypeNames, 0), rhs : Opt(RefTypes(TypeNames, 0)),
     bound : {<<>>}]

\* The caller's by-value implementations a crate starts with.
BaseCrates ==
    { << BaseImpl("Add", "add", <<"Int1">>, <<<<"Int2">>>>, "self") >>,
      << BaseImpl("Add", "add", <<"Int1">>, <<<<"Int2">>>>, "self"),
         BaseImpl("Add", "add", <<"Int2">>, <<<<"Int1">>>>, "self") >>,
      << BaseImpl("Add", "add", <<"Int1">>, <<<<"Int1">>>>, "self"),
         BaseImpl("Neg", "neg", <<"Int1">>, <<>>, "self"),
         BaseImpl("AddAssign", "add_assign", <<"Int1">>, <<<<"Int1">>>>, "&mut self") >> }

----------------------------------------------------------------------------
\* The state machine.

Init ==
    /\ phase = "idle"
    /\ inv = NoInv
    /\ pending = <<>>
    /\ emitted = <<>>
    /\ trace = <<>>
    /\ crate = <<>>
    /\ applied = <<>>
    /\ result = NoResult

CrateInit ==
    /\ phase = "idle"
    /\ inv = NoInv
    /\ pending = <<>>
    /\ emitted = <<>>
    /\ trace = <<>>
    /\ crate \in BaseCrates
    /\ applied = <<>>
    /\ result = NoResult

\* A macro invocation is met in the source.
Begin(m, f) ==
    /\ inv' = [macro |-> m, form |-> f]
    /\ pending' = << [macro |-> m, form |-> f] >>
    /\ emitted' = <<>>
    /\ trace' = <<>>
    /\ phase' = "expanding"
    /\ UNCHANGED <<crate, applied, result>>

Invoke ==
    /\ phase = "idle"
    /\ \E m \in Macros, f \in Forms : Begin(m, f)

InvokeInCrate ==
    /\ phase \in {"idle", "done"}
    /\ Len(applied) < MaxInvocations
    /\ \E m \in Macros : \E f \in CrateForms(m) : Begin(m, f)

\* One expansion step of the macro call at the head of the pending calls:
\* the first matching rule is transcribed in place of the call; with no
\* matching rule the expansion fails.
Expand(m) ==
    /\ phase = "expanding"
    /\ pending # <<>>
    /\ Head(pending).macro = m
    /\ LET f == Head(pending).form
           i == FirstMatch(m, f)
       IN  IF i = 0
           THEN /\ phase' = "failed"
                /\ trace' = Append(trace, [macro |-> m, rule |-> 0])
                /\ UNCHANGED <<pending, emitted, crate, applied>>
           ELSE LET t == Transcribe(m, i, f)
                    rest == t.calls \o Tail(pending)
                IN  /\ pending' = rest
                    /\ emitted' = emitted \o t.items
                    /\ crate' = crate \o t.items
                    /\ trace' = Append(trace, [macro |-> m, rule |-> i])
                    /\ phase' = IF rest = <<>> THEN "done" ELSE "expanding"
                    /\ applied' = IF rest = <<>> THEN Append(applied, inv) ELSE applied
    /\ UNCHANGED <<inv, result>>

ExpandUnop == Expand("forward_ref_unop")

ExpandBinop == Expand("forward_ref_binop")

ExpandCommutative == Expand("commutative_binop")

ExpandForwardRefCommutative == Expand("forward_ref_commutative_binop")

ExpandOpAssign == Expand("forward_ref_op_assign")

\* Every invocation is expanded: the crate is type-checked.
Build ==
    /\ phase \in {"idle", "done"}
    /\ phase' = IF TypeChecks(crate) THEN "run" ELSE "rejected"
    /\ UNCHANGED <<inv, pending, emitted, trace, crate, applied, result>>

Operand(ty, v) == [ty |-> ty, v |-> v]

\* A run evaluates one operator expression: the crate does not change while
\* it runs, so the expressions of a run are independent of one another.
Evaluated(tr, args) ==
    /\ result' = [op |-> tr, args |-> args, out |-> EvalOp(crate, tr, args)]
    /\ phase' = "evaluated"
    /\ UNCHANGED <<inv, pending, emitted, trace, crate, applied>>

\* `a op b` with each operand by value or by reference.
EvalBinary ==
    /\ phase = "run"
    /\ \E tr \in {"Add"}, ta, tb \in RefTypes(TypeNames, 1), l, r \in Values :
          Evaluated(tr, <<Operand(ta, l), Operand(tb, r)>>)

\* `op a`.
EvalUnary ==
    /\ phase = "run"
    /\ \E tr \in {"Neg"}, ta \in RefTypes(TypeNames, 1), l \in Values :
          Evaluated(tr, <<Operand(ta, l)>>)

\* `a op= b`.
EvalAssign ==
    /\ phase = "run"
    /\ \E tr \in {"AddAssign"}, ta \in RefTypes(TypeNames, 0),
          tb \in RefTypes(TypeNames, 1), l, r \in Values :
          Evaluated(tr, <<Operand(<<"&mut">> \o ta, l), Operand(tb, r)>>)

Expansion ==
    \/ ExpandUnop
    \/ ExpandBinop
    \/ ExpandCommutative
    \/ ExpandForwardRefCommutative
    \/ ExpandOpAssign

Next == Invoke \/ Expansion

Spec == Init /\ [][Next]_vars

CrateNext == InvokeInCrate \/ Expansion \/ Build \/ EvalBinary \/ EvalUnary \/ EvalAssign

CrateSpec == CrateInit /\ [][CrateNext]_vars

----------------------------------------------------------------------------
\* Claims.

Canonical(f) == f.meth # <<>> /\ f.rhs # <<>>

Invoked(m) == inv.macro = m

\* C1: a canonical forward_ref_binop invocation (Op, m, L, R) always reaches
\* its emission, which is exactly three implementations keyed (Self, Rhs) =
\* (&L, R), (L, &R), (&L, &R); each body dereferences exactly the operands
\* received by reference, calls <L>::m with the left operand first and the
\* right one second, and declares Output = <L as Op<R>>::Output.
C1_BinopEmitsThree ==
    (Invoked("forward_ref_binop") /\ Canonical(inv.form)) =>
        LET f == inv.form
            L == f.lhs
            R == f.rhs[1]
        IN  /\ phase # "failed"
            /\ phase = "done" =>
                 /\ Len(emitted) = 3
                 /\ {<<emitted[k].self, emitted[k].arg>> : k \in 1..3}
                      = {<<Ref(L), <<R>>>>, <<L, <<Ref(R)>>>>, <<Ref(L), <<Ref(R)>>>>}
                 /\ \A k \in 1..3 :
                      /\ emitted[k].trait = f.impl
                      /\ emitted[k].meth = f.meth[1]
                      /\ emitted[k].receiver = "self"
                      /\ emitted[k].rhs = emitted[k].arg
                      /\ emitted[k].call.ty = L
                      /\ emitted[k].call.meth = f.meth[1]
                      /\ emitted[k].call.args =
                           << IF emitted[k].self = Ref(L) THEN "*self" ELSE "self",
                              IF emitted[k].arg = <<Ref(R)>> THEN "*rhs" ELSE "rhs" >>
                      /\ emitted[k].output = << [of |-> L, as |-> f.impl, arg |-> <<R>>] >>

C1_Witness ==
    /\ phase = "done"
    /\ Invoked("forward_ref_binop")
    /\ Canonical(inv.form)
    /\ inv.form.lhs # inv.form.rhs[1]
    /\ Len(emitted) = 3

NamedTypes == RefTypes(TypeNames, 0)

RhsOf(f) == IF f.rhs = <<>> THEN f.lhs ELSE f.rhs[1]

\* Macro m was applied, as the k-th invocation of the crate, to operand
\* types (L, R) for trait tr.
AppliedAt(k, m, tr, L, R) ==
    /\ k \in 1..Len(applied)
    /\ applied[k].macro = m
    /\ applied[k].form.impl = tr
    /\ applied[k].form.lhs = L
    /\ RhsOf(applied[k].form) = R

\* The caller wrote the by-value implementation `impl tr<R> for L`.
HasBase(tr, L, R) ==
    \E k \in 1..Len(crate) : IsBase(crate[k]) /\ Key(crate[k]) = <<tr, <<R>>, L>>

\* The outcome of the by-value implementation of tr for (L, R) applied to
\* (l, r), called once.
BaseOutcome(tr, L, R, l, r) ==
    [ok |-> TRUE, why |-> "", base |-> <<tr, <<R>>, L>>, args |-> <<l, r>>, calls |-> 1,
     panic |-> BasePanics(tr, <<l, r>>)]

BinaryRun == phase = "evaluated" /\ Len(result.args) = 2

\* C2: once forward_ref_binop is applied to a by-value operator on (L, R),
\* each of the pairings l op r, l op &r, &l op r, &l op &r returns what
\* the by-value operator returns on (l, r).
C2_FourPairingsAgree ==
    \A L, R \in NamedTypes :
        ( /\ BinaryRun
          /\ \E k \in 1..Len(applied) : AppliedAt(k, "forward_ref_binop", result.op, L, R)
          /\ HasBase(result.op, L, R)
          /\ result.args[1].ty \in {L, Ref(L)}
          /\ result.args[2].ty \in {R, Ref(R)} )
        => result.out = BaseOutcome(result.op, L, R, result.args[1].v, result.args[2].v)

C2_Witness ==
    /\ BinaryRun
    /\ \E k \in 1..Len(applied) :
          AppliedAt(k, "forward_ref_binop", "Add", <<"Int1">>, <<"Int1">>)
    /\ HasBase("Add", <<"Int1">>, <<"Int1">>)
    /\ result.args[1].ty = Ref(<<"Int1">>)
    /\ result.args[2].ty = Ref(<<"Int1">>)
    /\ result.args[1].v # result.args[2].v
    /\ result.out.ok

\* C3: a canonical commutative_binop invocation whose arguments (L, R) name
\* the original L op R always reaches its emission, which is exactly one
\* implementation, of Op<L> for R, with Output = <L as Op<R>>::Output and a
\* body that swaps its operands and delegates to <L>::m; no reference
\* variant is emitted.
C3_CommutativeEmitsOne ==
    (Invoked("commutative_binop") /\ Canonical(inv.form)) =>
        LET f == inv.form
            L == f.lhs
            R == f.rhs[1]
        IN  /\ phase # "failed"
            /\ phase = "done" =>
                 /\ Len(emitted) = 1
                 /\ emitted[1].trait = f.impl
                 /\ emitted[1].self = R
                 /\ emitted[1].arg = <<L>>
                 /\ emitted[1].rhs = <<L>>
                 /\ emitted[1].receiver = "self"
                 /\ emitted[1].meth = f.meth[1]
                 /\ emitted[1].output = << [of |-> L, as |-> f.impl, arg |-> <<R>>] >>
                 /\ emitted[1].call = [ty |-> L, meth |-> f.meth[1], args |-> <<"rhs", "self">>]

C3_Witness ==
    /\ phase = "done"
    /\ Invoked("commutative_binop")
    /\ Canonical(inv.form)
    /\ inv.form.lhs # inv.form.rhs[1]
    /\ Len(emitted) = 1

\* C4: with a by-value L op R, after commutative_binop and then
\* forward_ref_commutative_binop are applied with (L, R), each of the eight
\* pairings (l op r, &l op r, l op &r, &l op &r, r op l, &r op l, r op &l,
\* &r op &l) returns what the by-value operator returns on (l, r).
C4_EightPairingsAgree ==
    \A L, R \in NamedTypes :
        ( /\ BinaryRun
          /\ \E i, j \in 1..Len(applied) :
                /\ i < j
                /\ AppliedAt(i, "commutative_binop", result.op, L, R)
                /\ AppliedAt(j, "forward_ref_commutative_binop", result.op, L, R)
          /\ HasBase(result.op, L, R) )
        => /\ (result.args[1].ty \in {L, Ref(L)} /\ result.args[2].ty \in {R, Ref(R)})
                => result.out = BaseOutcome(result.op, L, R, result.args[1].v, result.args[2].v)
           /\ (result.args[1].ty \in {R, Ref(R)} /\ result.args[2].ty \in {L, Ref(L)})
                => result.out = BaseOutcome(result.op, L, R, result.args[2].v, result.args[1].v)

C4_Witness ==
    /\ BinaryRun
    /\ AppliedAt(1, "commutative_binop", "Add", <<"Int1">>, <<"Int2">>)
    /\ AppliedAt(2, "forward_ref_commutative_binop", "Add", <<"Int1">>, <<"Int2">>)
    /\ HasBase("Add", <<"Int1">>, <<"Int2">>)
    /\ result.args[1].ty = Ref(<<"Int2">>)
    /\ result.args[2].ty = Ref(<<"Int1">>)
    /\ result.args[1].v # result.args[2].v
    /\ result.out.ok

Swapped(f) == [f EXCEPT !.lhs = f.rhs[1], !.rhs = <<f.lhs>>]

\* C5 as stated: a canonical forward_ref_commutative_binop invocation emits
\* 8 new implementations in total.
C5_EightNewImpls ==
    (phase = "done" /\ Invoked("forward_ref_commutative_binop") /\ Canonical(inv.form))
        => Len(emitted) = 8

\* C5, amended: a canonical forward_ref_commutative_binop invocation with
\* (L, R) always reaches its emission, which is the emission of
\* forward_ref_binop for base pair (L, R) followed by the emission of
\* forward_ref_binop for base pair (R, L): 6 new implementations in total.
C5_TwoSetsOfThree ==
    (Invoked("forward_ref_commutative_binop") /\ Canonical(inv.form)) =>
        /\ phase # "failed"
        /\ phase = "done" =>
             /\ emitted = Emission("forward_ref_binop", inv.form).items
                            \o Emission("forward_ref_binop", Swapped(inv.form)).items
             /\ Len(emitted) = 6

C5_Witness ==
    /\ phase = "done"
    /\ Invoked("forward_ref_commutative_binop")
    /\ Canonical(inv.form)
    /\ inv.form.lhs # inv.form.rhs[1]
    /\ Len(emitted) = 6

\* C6: a canonical forward_ref_unop invocation (Op, m, T) always reaches its
\* emission, which is exactly one implementation, of Op for &T, with
\* Output = <T as Op>::Output and a body that dereferences self and
\* delegates to <T>::m.
C6_UnopEmitsOne ==
    (Invoked("forward_ref_unop") /\ inv.form.meth # <<>> /\ inv.form.rhs = <<>>) =>
        LET f == inv.form
        IN  /\ phase # "failed"
            /\ phase = "done" =>
                 /\ Len(emitted) = 1
                 /\ emitted[1].trait = f.impl
                 /\ emitted[1].arg = <<>>
                 /\ emitted[1].self = Ref(f.lhs)
                 /\ emitted[1].receiver = "self"
                 /\ emitted[1].rhs = <<>>
                 /\ emitted[1].meth = f.meth[1]
                 /\ emitted[1].output = << [of |-> f.lhs, as |-> f.impl, arg |-> <<>>] >>
                 /\ emitted[1].call = [ty |-> f.lhs, meth |-> f.meth[1], args |-> <<"*self">>]

C6_Witness ==
    /\ phase = "done"
    /\ Invoked("forward_ref_unop")
    /\ inv.form.meth = <<"not">>
    /\ Len(emitted) = 1

\* C7: a canonical forward_ref_op_assign invocation (Op, m, L, R) always
\* reaches its emission, which is exactly one implementation, of Op<&R> for
\* L, whose body dereferences the right operand and delegates to <L>::m with
\* the receiver passed through unchanged; it has no reference Self type and
\* no associated Output type.
C7_OpAssignEmitsOne ==
    (Invoked("forward_ref_op_assign") /\ Canonical(inv.form)) =>
        LET f == inv.form
            L == f.lhs
            R == f.rhs[1]
        IN  /\ phase # "failed"
            /\ phase = "done" =>
                 /\ Len(emitted) = 1
                 /\ emitted[1].trait = f.impl
                 /\ emitted[1].arg = <<Ref(R)>>
                 /\ emitted[1].self = L
                 /\ emitted[1].self # Ref(L)
                 /\ emitted[1].receiver = "&mut self"
                 /\ emitted[1].rhs = <<Ref(R)>>
                 /\ emitted[1].meth = f.meth[1]
                 /\ emitted[1].output = <<>>
                 /\ emitted[1].call = [ty |-> L, meth |-> f.meth[1], args |-> <<"self", "*rhs">>]

C7_Witness ==
    /\ phase = "done"
    /\ Invoked("forward_ref_op_assign")
    /\ Canonical(inv.form)
    /\ inv.form.lhs # inv.form.rhs[1]
    /\ Len(emitted) = 1

\* The well-known traits of each macro and their conventional methods, as
\* the documentation lists them.
WellKnown(m) ==
    CASE m = "forward_ref_unop" -> {"Neg"}
      [] m = "forward_ref_binop" -> {"Add", "Sub", "Mul", "Div"}
      [] m = "forward_ref_op_assign" -> {"AddAssign", "SubAssign", "MulAssign", "DivAssign"}
      [] m \in {"commutative_binop", "forward_ref_commutative_binop"} -> {"Add", "Mul"}
      [] OTHER -> {}

ConventionalMethod(tr) ==
    CASE tr = "Neg" -> "neg"
      [] tr = "Add" -> "add"
      [] tr = "Sub" -> "sub"
      [] tr = "Mul" -> "mul"
      [] tr = "Div" -> "div"
      [] tr = "AddAssign" -> "add_assign"
      [] tr = "SubAssign" -> "sub_assign"
      [] tr = "MulAssign" -> "mul_assign"
      [] tr = "DivAssign" -> "div_assign"
      [] OTHER -> ""

WithMethod(f) == [f EXCEPT !.meth = <<ConventionalMethod(f.impl)>>]

\* C8: in forward_ref_unop, forward_ref_binop and forward_ref_op_assign an
\* invocation that omits the method name and names a well-known trait is
\* rewritten to the same invocation with the conventional method written
\* (generics, operand types, an omitted RHS and bounds unchanged), and its
\* expansion ends as that invocation's does, with the same emission.
C8_ShorthandEqualsExplicit ==
    ( /\ inv.macro \in {"forward_ref_unop", "forward_ref_binop", "forward_ref_op_assign"}
      /\ inv.form.meth = <<>>
      /\ inv.form.impl \in WellKnown(inv.macro) )
    => LET explicit == Emission(inv.macro, WithMethod(inv.form))
       IN  /\ (phase = "expanding" /\ Len(trace) = 1)
                => pending = << [macro |-> inv.macro, form |-> WithMethod(inv.form)] >>
           /\ phase = "failed" => ~explicit.ok
           /\ phase = "done" => explicit.ok /\ emitted = explicit.items

C8_Witness ==
    /\ phase = "done"
    /\ Invoked("forward_ref_binop")
    /\ inv.form.meth = <<>>
    /\ inv.form.impl = "Sub"
    /\ inv.form.rhs = <<>>
    /\ inv.form.generic # <<>>
    /\ inv.form.bound # <<>>
    /\ Len(emitted) = 3

\* C9: in every macro, an invocation that omits the method name and names a
\* trait outside the macro's well-known set matches no rule: its expansion
\* can only fail, at its first step, and emits nothing.
C9_UnknownTraitFails ==
    ( /\ inv.macro \in Macros
      /\ inv.form.meth = <<>>
      /\ inv.form.impl \notin WellKnown(inv.macro) )
    => /\ emitted = <<>>
       /\ phase \in {"expanding", "failed"}
       /\ phase = "expanding" => (trace = <<>> /\ pending = <<inv>>)
       /\ phase = "failed" => trace = << [macro |-> inv.macro, rule |-> 0] >>

C9_Witness ==
    /\ phase = "failed"
    /\ Invoked("forward_ref_unop")
    /\ inv.form.meth = <<>>
    /\ inv.form.impl = "Not"
    /\ inv.form.rhs = <<>>

\* C10: in commutative_binop and forward_ref_commutative_binop an invocation
\* without a method name is resolved, to add and mul, exactly for the traits
\* Add and Mul; for every other trait, Sub and Div included, it matches no
\* rule and fails without emitting anything.
C10_CommutativeShorthand ==
    ( /\ inv.macro \in {"commutative_binop", "forward_ref_commutative_binop"}
      /\ inv.form.meth = <<>>
      /\ inv.form.rhs # <<>> )
    => IF inv.form.impl \in {"Add", "Mul"}
       THEN /\ phase # "failed"
            /\ phase = "done" =>
                 /\ emitted = Emission(inv.macro, WithMethod(inv.form)).items
                 /\ emitted # <<>>
                 /\ \A k \in 1..Len(emitted) :
                        emitted[k].meth = (IF inv.form.impl = "Add" THEN "add" ELSE "mul")
       ELSE /\ emitted = <<>>
            /\ phase \in {"expanding", "failed"}
            /\ phase = "expanding" => trace = <<>>

C10_Witness ==
    /\ phase = "failed"
    /\ Invoked("commutative_binop")
    /\ inv.form.meth = <<>>
    /\ inv.form.impl = "Sub"
    /\ inv.form.rhs # <<>>

WithRhs(f) == [f EXCEPT !.rhs = <<f.lhs>>]

\* C11: in forward_ref_binop and forward_ref_op_assign, for every trait,
\* method (written or omitted), generics, bounds and left type L, the
\* invocation that omits the right operand type ends as the invocation that
\* writes it as L does, with the same emission.
C11_OmittedRhsEqualsExplicit ==
    ( /\ inv.macro \in {"forward_ref_binop", "forward_ref_op_assign"}
      /\ inv.form.rhs = <<>> )
    => LET explicit == Emission(inv.macro, WithRhs(inv.form))
       IN  /\ phase = "failed" => ~explicit.ok
           /\ phase = "done" => explicit.ok /\ emitted = explicit.items

C11_Witness ==
    /\ phase = "done"
    /\ Invoked("forward_ref_op_assign")
    /\ inv.form.rhs = <<>>
    /\ inv.form.meth = <<>>
    /\ inv.form.generic # <<>>
    /\ IsRef(inv.form.lhs)
    /\ Len(emitted) = 1

CommutativeFamily == {"commutative_binop", "forward_ref_commutative_binop"}

\* The invocation in hand is of a commutative macro with identical operand
\* types, the right one omitted or written.
IdenticalOperands ==
    /\ inv.macro \in CommutativeFamily
    /\ RhsOf(inv.form) = inv.form.lhs

\* The k-th invocation of the crate was of a commutative macro with
\* identical operand types.
AppliedIdentical(k) ==
    /\ applied[k].macro \in CommutativeFamily
    /\ applied[k].form.rhs = <<applied[k].form.lhs>>

\* C12 as stated: a commutative_binop or forward_ref_commutative_binop
\* invocation with identical operand types (right type omitted or written
\* equal to the left) is rejected by the macro: its expansion fails and
\* emits nothing.
C12_RejectedByMacro ==
    IdenticalOperands => phase \in {"expanding", "failed"} /\ emitted = <<>>

\* C12, amended: with the right type omitted the invocation matches no rule
\* and nothing is emitted.  With the right type written equal to the left
\* type L the expansion succeeds: commutative_binop emits the implementation
\* keyed as the by-value `L op L` it delegates to, whose Output is projected
\* from that same key, and forward_ref_commutative_binop emits each of its
\* three keys twice; no crate holding such an invocation type-checks.
C12_DuplicatesRejectedAtBuild ==
    /\ (IdenticalOperands /\ inv.form.rhs = <<>>) =>
          phase \in {"expanding", "failed"} /\ emitted = <<>>
    /\ (IdenticalOperands /\ inv.form.rhs # <<>>) =>
          /\ phase # "failed"
          /\ (phase = "done" /\ Invoked("commutative_binop")) =>
                /\ Len(emitted) = 1
                /\ Key(emitted[1]) = <<inv.form.impl, <<inv.form.lhs>>, inv.form.lhs>>
                /\ emitted[1].output =
                     << [of |-> inv.form.lhs, as |-> inv.form.impl, arg |-> <<inv.form.lhs>>] >>
                /\ emitted[1].call.ty = inv.form.lhs
          /\ (phase = "done" /\ Invoked("forward_ref_commutative_binop")) =>
                /\ Len(emitted) = 6
                /\ \A k \in 1..3 : Key(emitted[k]) = Key(emitted[k + 3])
    /\ (\E k \in 1..Len(applied) : AppliedIdentical(k)) =>
          /\ ~TypeChecks(crate)
          /\ phase \notin {"run", "evaluated"}

C12_Witness ==
    /\ phase = "rejected"
    /\ Len(applied) = 1
    /\ AppliedIdentical(1)
    /\ Invoked("commutative_binop")
    /\ HasBase("Add", <<"Int1">>, <<"Int1">>)
    /\ Len(emitted) = 1
    /\ ~Coherent(crate)

\* C13: in every macro, through every normalization rewrite and through the
\* delegation of forward_ref_commutative_binop to forward_ref_binop, every
\* macro call still to expand and every emitted implementation carries
\* exactly the generic-parameter list and the where clause the caller
\* wrote (none when the caller wrote none).
C13_GenericsAndBoundsThreaded ==
    /\ \A k \in 1..Len(pending) :
          /\ pending[k].form.generic = inv.form.generic
          /\ pending[k].form.bound = inv.form.bound
    /\ \A k \in 1..Len(emitted) :
          /\ emitted[k].generic = inv.form.generic
          /\ emitted[k].bound = inv.form.bound

C13_Witness ==
    /\ phase = "done"
    /\ Invoked("forward_ref_commutative_binop")
    /\ inv.form.generic = << <<"T", ",", "const M: usize">> >>
    /\ inv.form.bound # <<>>
    /\ inv.form.meth = <<>>
    /\ Len(emitted) = 6
    /\ emitted[6].generic = inv.form.generic
    /\ emitted[6].bound = inv.form.bound

\* What a rule of a macro does: "resolve" the method of a well-known trait,
\* "default" the right operand type, or "emit"; "fail" stands for the
\* grammar-match error.
RuleKind(m, i) ==
    CASE i = 0 -> "fail"
      [] i = NRules(m) -> "emit"
      [] m \in {"forward_ref_binop", "forward_ref_op_assign"} /\ i = NRules(m) - 1 -> "default"
      [] OTHER -> "resolve"

KindAt(k) == RuleKind(trace[k].macro, trace[k].rule)

Steps(kind) == {k \in 1..Len(trace) : KindAt(k) = kind}

\* The steps taken by the invoked macro itself and by the macro it
\* delegates to.
OwnSteps(kind) == {k \in Steps(kind) : trace[k].macro = inv.macro}

DelegatedSteps(kind) == {k \in Steps(kind) : trace[k].macro # inv.macro}

\* C14: every expansion terminates, in a grammar-match error or after the
\* family's emission rule: at most two normalization rewrites are applied,
\* method resolution before RHS defaulting and neither twice, nothing is
\* rewritten after an emission, a failure ends the expansion, and each
\* canonical form (the invocation's, and for forward_ref_commutative_binop
\* the two it delegates) triggers its emission rule exactly once.
C14_ExpansionTerminates ==
    /\ Cardinality(Steps("resolve")) <= 1
    /\ Cardinality(Steps("default")) <= 1
    /\ \A r \in Steps("resolve"), d \in Steps("default") : r < d
    /\ \A w \in Steps("resolve") \cup Steps("default"), e \in Steps("emit") : w < e
    /\ \A k \in Steps("fail") : k = Len(trace) /\ phase = "failed"
    /\ Cardinality(OwnSteps("emit")) <= 1
    /\ Len(trace) <= 4
    /\ phase = "expanding" => pending # <<>> /\ Steps("fail") = {}
    /\ phase = "failed" => Steps("fail") # {} /\ Steps("emit") = {}
    /\ phase = "done" =>
          /\ pending = <<>>
          /\ Cardinality(OwnSteps("emit")) = 1
          /\ Cardinality(DelegatedSteps("emit")) =
                IF Invoked("forward_ref_commutative_binop") THEN 2 ELSE 0
          /\ DelegatedSteps("resolve") \cup DelegatedSteps("default") = {}

C14_Witness ==
    /\ phase = "done"
    /\ Invoked("forward_ref_binop")
    /\ inv.form.meth = <<>>
    /\ inv.form.rhs = <<>>
    /\ Len(trace) = 3
    /\ KindAt(1) = "resolve"
    /\ KindAt(2) = "default"
    /\ KindAt(3) = "emit"

\* The (Self type, Rhs type) pair an implementation is keyed by.
Pair(it) == <<it.self, it.arg>>

\* C15: for all operand types L and R (L = R and reference types included),
\* the three implementations one forward_ref_binop invocation emits have
\* pairwise distinct (Self, Rhs) keys, none of them the key (L, R) of the
\* caller's by-value implementation.
C15_BinopKeysDistinct ==
    (phase = "done" /\ Invoked("forward_ref_binop")) =>
        /\ Len(emitted) = 3
        /\ \A j, k \in 1..Len(emitted) : j # k => Pair(emitted[j]) # Pair(emitted[k])
        /\ \A k \in 1..Len(emitted) :
              Pair(emitted[k]) # <<inv.form.lhs, <<RhsOf(inv.form)>>>>

C15_Witness ==
    /\ phase = "done"
    /\ Invoked("forward_ref_binop")
    /\ inv.form.lhs = <<"Int1">>
    /\ inv.form.rhs = <<Ref(<<"Int1">>)>>
    /\ Len(emitted) = 3
    /\ Pair(emitted[1]) = <<Ref(<<"Int1">>), <<Ref(<<"Int1">>)>>>>

\* Some implementation `impl tr<R> for L`, written or emitted, is in the
\* crate.
HasImpl(tr, L, R) ==
    \E k \in 1..Len(crate) : Key(crate[k]) = <<tr, <<R>>, L>>

\* C16: the three implementations forward_ref_commutative_binop(L, R) emits
\* for the swapped order are keyed (&R, L), (R, &L), (&R, &L), call <R>::m
\* and take Output from <R as Op<L>>::Output; so a crate in which the macro
\* was applied to L # R and which holds no `R op L` implementation does not
\* type-check and is never run.
C16_SwappedOrderNeedsItsBase ==
    /\ (phase = "done" /\ Invoked("forward_ref_commutative_binop")) =>
          LET L == inv.form.lhs
              R == inv.form.rhs[1]
          IN  /\ Len(emitted) = 6
              /\ Pair(emitted[4]) = <<Ref(R), <<L>>>>
              /\ Pair(emitted[5]) = <<R, <<Ref(L)>>>>
              /\ Pair(emitted[6]) = <<Ref(R), <<Ref(L)>>>>
              /\ \A k \in 4..6 :
                    /\ emitted[k].call.ty = R
                    /\ emitted[k].call.meth = emitted[k].meth
                    /\ emitted[k].output = << [of |-> R, as |-> inv.form.impl, arg |-> <<L>>] >>
    /\ \A k \in 1..Len(applied) :
          ( /\ applied[k].macro = "forward_ref_commutative_binop"
            /\ applied[k].form.rhs # <<applied[k].form.lhs>>
            /\ ~HasImpl(applied[k].form.impl, applied[k].form.rhs[1], applied[k].form.lhs) )
          => /\ ~TypeChecks(crate)
             /\ phase \notin {"run", "evaluated"}

C16_Witness ==
    /\ phase = "rejected"
    /\ Len(applied) = 1
    /\ AppliedAt(1, "forward_ref_commutative_binop", "Add", <<"Int1">>, <<"Int2">>)
    /\ HasBase("Add", <<"Int1">>, <<"Int2">>)
    /\ ~HasImpl("Add", <<"Int2">>, <<"Int1">>)
    /\ Coherent(crate)
    /\ \A k \in 1..3 : ItemTypeChecks(crate, emitted[k])
    /\ \A k \in 4..6 : ~ItemTypeChecks(crate, emitted[k])

\* The type an operand refers to: the operand's own type when it is passed
\* by value.
Pointee(ty) == IF Head(ty) \in {"&", "&mut"} THEN Tail(ty) ELSE ty

\* The implementations the evaluated expression dispatches to.
Target ==
    LET recv == result.args[1].ty
    IN  Dispatch(crate, result.op, IF Head(recv) = "&mut" THEN Tail(recv) ELSE recv,
                 [n \in 1..(Len(result.args) - 1) |-> result.args[n + 1].ty])

\* The evaluated expression is served by an implementation a macro emitted.
ServedByEmitted ==
    /\ phase = "evaluated"
    /\ \E j \in Target : ~IsBase(crate[j])

\* The operand values as the by-value implementation `base` takes them:
\* dereferenced, and in the order of the base's (Self, Rhs) types.
BaseOperands(base) ==
    LET vals == [n \in 1..Len(result.args) |-> result.args[n].v]
    IN  IF Len(vals) = 2 /\ Pointee(result.args[1].ty) # base[3]
        THEN <<vals[2], vals[1]>>
        ELSE vals

\* C17: an operator expression served by an emitted implementation, of any
\* family, reaches a by-value implementation written by the caller, calls
\* it exactly once on the dereferenced (for commutative_binop, swapped)
\* operand values, and panics exactly when that implementation panics on
\* those values; the forwarding itself never fails.
C17_PanicsOnlyWithBase ==
    ServedByEmitted =>
        /\ result.out.ok
        /\ result.out.calls = 1
        /\ \E k \in 1..Len(crate) : IsBase(crate[k]) /\ Key(crate[k]) = result.out.base
        /\ result.out.args = BaseOperands(result.out.base)
        /\ result.out.panic <=> BasePanics(result.op, BaseOperands(result.out.base))

C17_Witness ==
    /\ ServedByEmitted
    /\ result.op = "Add"
    /\ result.args[1].ty = Ref(<<"Int2">>)
    /\ result.args[2].ty = Ref(<<"Int1">>)
    /\ result.args[1].v = 3
    /\ result.args[2].v = I32Max
    /\ result.out.args = <<I32Max, 3>>
    /\ result.out.panic

\* C18: the rules of a macro are mutually exclusive: the invocation and
\* every intermediate form reached while it expands match at most one rule,
\* so the rule transcribed is the same whatever the order the rules are
\* tried in; an invocation that writes a method name next to a well-known
\* trait is emitted with the written name.
C18_RulesMutuallyExclusive ==
    /\ \A k \in 1..Len(pending) :
          LET matching == Matching(pending[k].macro, pending[k].form)
          IN  /\ Cardinality(matching) <= 1
              /\ \A i \in matching : i = FirstMatch(pending[k].macro, pending[k].form)
    /\ (phase = "done" /\ inv.form.meth # <<>>) =>
          \A k \in 1..Len(emitted) :
              /\ emitted[k].meth = inv.form.meth[1]
              /\ emitted[k].call.meth = inv.form.meth[1]

C18_Witness ==
    /\ phase = "done"
    /\ Invoked("forward_ref_binop")
    /\ inv.form.impl = "Add"
    /\ inv.form.meth = <<"sub">>
    /\ ConventionalMethod("Add") # "sub"
    /\ Len(emitted) = 3
    /\ emitted[1].meth = "sub"

\* C19: for all operand types L # R (one may be a reference to the other),
\* the six implementations forward_ref_commutative_binop(L, R) emits have
\* pairwise distinct (Self, Rhs) keys, none of them the key (L, R) or
\* (R, L) of a by-value implementation.
C19_SixKeysDistinct ==
    ( /\ phase = "done"
      /\ Invoked("forward_ref_commutative_binop")
      /\ inv.form.rhs # <<inv.form.lhs>> ) =>
        /\ Len(emitted) = 6
        /\ \A j, k \in 1..Len(emitted) : j # k => Pair(emitted[j]) # Pair(emitted[k])
        /\ \A k \in 1..Len(emitted) :
              /\ Pair(emitted[k]) # <<inv.form.lhs, inv.form.rhs>>
              /\ Pair(emitted[k]) # <<inv.form.rhs[1], <<inv.form.lhs>>>>

\* L = Int1, R = &Int1: the (&L, R) implementation of the first call and
\* the (R, &L) implementation of the second are both `Op<&Int1> for &Int1`.
C19_Witness ==
    /\ phase = "done"
    /\ Invoked("forward_ref_commutative_binop")
    /\ inv.form.lhs = <<"Int1">>
    /\ inv.form.rhs = <<Ref(<<"Int1">>)>>
    /\ Len(emitted) = 6
    /\ Key(emitted[1]) = Key(emitted[5])
    /\ Pair(emitted[1]) = <<Ref(<<"Int1">>), <<Ref(<<"Int1">>)>>>>

====
